---- MODULE Spec2Model ----
(***************************************************************************)
(* A model of main.py: the frame codec (frame / LD2410s.unframe), the      *)
(* response parser (LD2410s.parse), the command chooser                    *)
(* (LD2410s.get_next_cmd) and the poll step (LD2410s.update), over real    *)
(* byte sequences.  Bytes are the integers 0..255, a bytes object is a     *)
(* sequence of them.                                                       *)
(*                                                                         *)
(* Python's None is modelled by wrapping: None is <<>> and a value v that  *)
(* is not None is <<v>>, so that None, b'' , '' and 0 stay four different  *)
(* values, as they are in Python.                                          *)
(***************************************************************************)
EXTENDS Integers, Sequences, FiniteSets, TLC

VARIABLES
    buf,                \* self.buf
    waiting_for_frame,  \* self.waiting_for_frame
    config_started,     \* self.config_started
    version,            \* self.version            (None or Some(string))
    serial_number,      \* self.serial_number      (None or Some(code points))
    _freq_status,        \* self._freq_status       (None or Some(int))
    _freq_distance,      \* self._freq_distance
    _distance_max,       \* self._distance_max
    _distance_min,       \* self._distance_min
    _unattended_delay,   \* self._unattended_delay
    _response_speed,     \* self._response_speed
    wire,               \* bytes the device has sent that serial.read() has not returned yet
    tx,                 \* the command last given to serial.write() that the device has not taken yet
    last_cmd,           \* the command last given to serial.write()
    data,               \* the local `data` of the last call (update: unframe's result; parse: its argument)
    wrote,              \* whether the last update() call called serial.write()
    ret,                \* how the last call ended: "init" (no call yet), "True", "False", "None", "raised"
    input,              \* the bytes the buffer was given before the first unframe() call
    calls               \* number of unframe() calls made on that buffer

sess_vars == <<config_started, version, serial_number, _freq_status, _freq_distance,
               _distance_max, _distance_min, _unattended_delay, _response_speed>>
vars == <<buf, waiting_for_frame, sess_vars, wire, tx, last_cmd, data, wrote, ret,
          input, calls>>

-----------------------------------------------------------------------------
(* Python values *)

None == <<>>
Some(v) == <<v>>

Min(a, b) == IF a < b THEN a ELSE b

\* s[a:b] for 0 <= a, 0 <= b
Slice(s, a, b) == SubSeq(s, a + 1, Min(b, Len(s)))

\* s[a:] for 0 <= a
From(s, a) == SubSeq(s, a + 1, Len(s))

NotFound == -1

\* bytes.index(pat): the first position of pat in s; NotFound stands for ValueError
Index(s, pat) ==
    LET hits == {i \in 0..(Len(s) - Len(pat)) : \A k \in 1..Len(pat) : s[i + k] = pat[k]}
    IN IF hits = {} THEN NotFound
       ELSE CHOOSE i \in hits : \A j \in hits : i <= j

\* struct.pack('<H', n)
pack_H(n) == <<n % 256, (n \div 256) % 256>>

\* struct.unpack('<H', b)[0] for a 2-byte b
unpack_H(b) == b[1] + 256 * b[2]

\* one '<I' field of struct.unpack, a 4-byte b
unpack_I(b) == b[1] + 256 * b[2] + 65536 * b[3] + 16777216 * b[4]

\* bytes.decode('ascii'): the code points are the bytes; a byte over 127 raises
IsAscii(b) == \A i \in 1..Len(b) : b[i] < 128

-----------------------------------------------------------------------------
(* The frame codec *)

FRAME_HEAD == <<253, 252, 251, 250>>
FRAME_END == <<4, 3, 2, 1>>

frame(cmd, value) ==
    LET data_len == pack_H(Len(cmd) + Len(value) + 1)
    IN FRAME_HEAD \o data_len \o cmd \o <<0>> \o value \o FRAME_END

STATUS_SUCCESS == <<0, 0>>

Commands_CONFIG_START == frame(<<255>>, <<1, 0>>)
Commands_CONFIG_END == frame(<<254>>, <<>>)
Commands_GET_VERSION == frame(<<0>>, <<>>)
Commands_PARAMS_READ == frame(<<113>>, <<2, 0, 12, 0, 5, 0, 10, 0, 6, 0, 11, 0>>)
Commands_SERIAL_READ == frame(<<17>>, <<>>)

Responses_CONFIG_START == <<255, 1>>
Responses_CONFIG_END == <<254, 1>>
Responses_GET_VERSION == <<0, 1>>
Responses_PARAMS_READ == <<113, 1>>
Responses_SERIAL_READ == <<17, 1>>

\* an unframe that rejects a span whose length field disagrees with its length
unframe_checked(b) ==
    LET end_idx == Index(b, FRAME_END)
    IN IF end_idx = NotFound
       THEN [data |-> None, buf |-> b, mismatch |-> FALSE]
       ELSE LET remainder == From(b, end_idx + 4)
                start_idx == Index(b, FRAME_HEAD)
                d == Slice(b, start_idx + 4, end_idx)
            IN IF start_idx = NotFound \/ Len(d) < 2
               THEN [data |-> None, buf |-> remainder, mismatch |-> FALSE]
               ELSE IF Len(d) # unpack_H(Slice(d, 0, 2)) + 2
               THEN [data |-> None, buf |-> remainder, mismatch |-> TRUE]
               ELSE [data |-> Some(From(d, 2)), buf |-> remainder, mismatch |-> FALSE]

\* an unframe that empties the buffer when it finds no end marker
unframe_dropping(b) ==
    LET end_idx == Index(b, FRAME_END)
    IN IF end_idx = NotFound
       THEN [data |-> None, buf |-> <<>>, mismatch |-> FALSE]
       ELSE LET remainder == From(b, end_idx + 4)
                start_idx == Index(b, FRAME_HEAD)
                d == Slice(b, start_idx + 4, end_idx)
            IN IF start_idx = NotFound \/ Len(d) < 2
               THEN [data |-> None, buf |-> remainder, mismatch |-> FALSE]
               ELSE [data |-> Some(From(d, 2)), buf |-> remainder,
                     mismatch |-> (Len(d) # unpack_H(Slice(d, 0, 2)) + 2)]

\* unframe on buffer b: the value returned (None or Some(bytes)), the new self.buf,
\* and whether the length diagnostic was printed
unframe(b) ==
    LET end_idx == Index(b, FRAME_END)
    IN IF end_idx = NotFound
       THEN [data |-> None, buf |-> b, mismatch |-> FALSE]
       ELSE LET remainder == From(b, end_idx + 4)
                start_idx == Index(b, FRAME_HEAD)
                d == Slice(b, start_idx + 4, end_idx)
            IN IF start_idx = NotFound \/ Len(d) < 2
               THEN \* ValueError of index, or struct.error of unpack on d[0:2]
                    [data |-> None, buf |-> remainder, mismatch |-> FALSE]
               ELSE [data |-> Some(From(d, 2)), buf |-> remainder,
                     mismatch |-> (Len(d) # unpack_H(Slice(d, 0, 2)) + 2)]

-----------------------------------------------------------------------------
(* The session: the fields of an LD2410s object that parse and get_next_cmd use *)

Sess ==
    [config_started |-> config_started, version |-> version,
     serial_number |-> serial_number, _freq_status |-> _freq_status,
     _freq_distance |-> _freq_distance, _distance_max |-> _distance_max,
     _distance_min |-> _distance_min, _unattended_delay |-> _unattended_delay,
     _response_speed |-> _response_speed]

\* the fields as __init__ leaves them
InitSess ==
    [config_started |-> FALSE, version |-> None, serial_number |-> None,
     _freq_status |-> None, _freq_distance |-> None, _distance_max |-> None,
     _distance_min |-> None, _unattended_delay |-> None, _response_speed |-> None]

\* f"{major}.{minor}.{patch}"
FormatVersion(major, minor, patch) ==
    ToString(major) \o "." \o ToString(minor) \o "." \o ToString(patch)

\* how a call of parse ends: exc is "none" when it returns, else the exception's type
Raise(s, exc) == [exc |-> exc, s |-> s]
Return(s) == [exc |-> "none", s |-> s]

parse_CONFIG_START(d, s) == Return([s EXCEPT !.config_started = TRUE])

parse_CONFIG_END(d, s) ==
    IF Len(d) < 4 THEN Raise(s, "Exception")
    ELSE IF Slice(d, 2, 4) = STATUS_SUCCESS
         THEN Return([s EXCEPT !.config_started = FALSE])
         ELSE Return(s)

parse_GET_VERSION(d, s) ==
    IF Len(d) < 14 THEN Raise(s, "Exception")
    ELSE LET major == unpack_H(Slice(d, 8, 10))
             minor == unpack_H(Slice(d, 10, 12))
             patch == unpack_H(Slice(d, 12, 14))
         IN Return([s EXCEPT !.version = Some(FormatVersion(major, minor, patch))])

\* struct.unpack('<IIIIII', d[4:]) raises struct.error unless d[4:] is 24 bytes long
parse_PARAMS_READ(d, s) ==
    IF Slice(d, 2, 4) = STATUS_SUCCESS
    THEN IF Len(d) < 4 + 4 * 6 THEN Raise(s, "Exception")
         ELSE IF Len(From(d, 4)) # 24 THEN Raise(s, "struct.error")
         ELSE Return([s EXCEPT
                 !._freq_status = Some(unpack_I(Slice(d, 4, 8))),
                 !._freq_distance = Some(unpack_I(Slice(d, 8, 12))),
                 !._distance_max = Some(unpack_I(Slice(d, 12, 16))),
                 !._distance_min = Some(unpack_I(Slice(d, 16, 20))),
                 !._unattended_delay = Some(unpack_I(Slice(d, 20, 24))),
                 !._response_speed = Some(unpack_I(Slice(d, 24, 28)))])
    ELSE Return(s)

\* a ReadSerial handler that stores the bytes it sliced before it checks them
parse_SERIAL_READ_storing(d, s) ==
    IF Len(d) < 4 THEN Raise(s, "Exception")
    ELSE IF Slice(d, 2, 4) = STATUS_SUCCESS
         THEN IF Len(Slice(d, 4, 6)) # 2 THEN Raise(s, "struct.error")
              ELSE LET serial_len == unpack_H(Slice(d, 4, 6))
                       raw == Slice(d, 6, 6 + serial_len)
                       stored == [s EXCEPT !.serial_number = Some(raw)]
                   IN IF Len(raw) # serial_len THEN Raise(stored, "struct.error")
                      ELSE IF ~IsAscii(raw) THEN Raise(stored, "UnicodeDecodeError")
                      ELSE Return(stored)
         ELSE Return(s)

\* struct.unpack('<H', d[4:6]) raises unless d[4:6] is 2 bytes long;
\* struct.unpack(f'<{serial_len}s', d[6:6+serial_len]) raises unless the slice is
\* serial_len bytes long; decode('ascii') raises on a byte over 127
parse_SERIAL_READ(d, s) ==
    IF Len(d) < 4 THEN Raise(s, "Exception")
    ELSE IF Slice(d, 2, 4) = STATUS_SUCCESS
         THEN IF Len(Slice(d, 4, 6)) # 2 THEN Raise(s, "struct.error")
              ELSE LET serial_len == unpack_H(Slice(d, 4, 6))
                       raw == Slice(d, 6, 6 + serial_len)
                   IN IF Len(raw) # serial_len THEN Raise(s, "struct.error")
                      ELSE IF ~IsAscii(raw) THEN Raise(s, "UnicodeDecodeError")
                      ELSE Return([s EXCEPT !.serial_number = Some(raw)])
         ELSE Return(s)

\* a parse that looks at the command code alone, not at the whole response word
parse_by_code(d, s) ==
    LET code == Slice(d, 0, 1)
    IN CASE code = Slice(Responses_CONFIG_START, 0, 1) -> parse_CONFIG_START(d, s)
         [] code = Slice(Responses_CONFIG_END, 0, 1) -> parse_CONFIG_END(d, s)
         [] code = Slice(Responses_GET_VERSION, 0, 1) -> parse_GET_VERSION(d, s)
         [] code = Slice(Responses_PARAMS_READ, 0, 1) -> parse_PARAMS_READ(d, s)
         [] code = Slice(Responses_SERIAL_READ, 0, 1) -> parse_SERIAL_READ(d, s)
         [] OTHER -> Return(s)

\* parse(d) on a session with fields s: whether it raised, and the fields after it
parse(d, s) ==
    LET resp_word == Slice(d, 0, 2)
    IN CASE resp_word = Responses_CONFIG_START -> parse_CONFIG_START(d, s)
         [] resp_word = Responses_CONFIG_END -> parse_CONFIG_END(d, s)
         [] resp_word = Responses_GET_VERSION -> parse_GET_VERSION(d, s)
         [] resp_word = Responses_PARAMS_READ -> parse_PARAMS_READ(d, s)
         [] resp_word = Responses_SERIAL_READ -> parse_SERIAL_READ(d, s)
         [] OTHER -> Return(s)

\* Python's `not x` for the three kinds of fact
not_str(x) == x = None \/ x[1] = ""
not_bytes(x) == x = None \/ x[1] = <<>>
not_int(x) == x = None \/ x[1] = 0

\* a with_config that forgets the gate
with_config_ungated(s, cmd) == cmd

with_config(s, cmd) == IF ~s.config_started THEN Commands_CONFIG_START ELSE cmd

\* a get_next_cmd that forgets to ask for the parameters
get_next_cmd_no_params(s) ==
    IF not_str(s.version) THEN Some(Commands_GET_VERSION)
    ELSE IF not_bytes(s.serial_number) THEN Some(with_config(s, Commands_SERIAL_READ))
    ELSE IF s.config_started THEN Some(Commands_CONFIG_END)
    ELSE None

\* get_next_cmd on a session with fields s: None or Some(command bytes)
get_next_cmd(s) ==
    IF not_str(s.version) THEN Some(Commands_GET_VERSION)
    ELSE IF not_bytes(s.serial_number) THEN Some(with_config(s, Commands_SERIAL_READ))
    ELSE IF not_int(s._freq_status) THEN Some(with_config(s, Commands_PARAMS_READ))
    ELSE IF s.config_started THEN Some(Commands_CONFIG_END)
    ELSE None

done_reading(s) == get_next_cmd(s) = None

-----------------------------------------------------------------------------
(* The device: what it may put on the line.  An inbound frame carries the   *)
(* response word, then the response's fields, between head, length and end. *)

\* struct.pack('<I', n)
pack_I(n) == <<n % 256, (n \div 256) % 256, (n \div 65536) % 256, (n \div 16777216) % 256>>

InFrame(d) == FRAME_HEAD \o pack_H(Len(d)) \o d \o FRAME_END

STATUS_FAILURE == <<1, 0>>

VersionResp(major, minor, patch) ==
    Responses_GET_VERSION \o <<1, 2, 3, 4>> \o <<0, 0>>
        \o pack_H(major) \o pack_H(minor) \o pack_H(patch)

SerialResp(status, str) == Responses_SERIAL_READ \o status \o pack_H(Len(str)) \o str

ParamsResp(status, p) ==
    Responses_PARAMS_READ \o status \o pack_I(p[1]) \o pack_I(p[2]) \o pack_I(p[3])
        \o pack_I(p[4]) \o pack_I(p[5]) \o pack_I(p[6])

\* config acknowledgements: the word, the status, and (enable only) the
\* protocol version and buffer size the device appends
EnableAck(status) == Responses_CONFIG_START \o status \o <<1, 0, 64, 0>>
DisableAck(status) == Responses_CONFIG_END \o status

MaxSerialLen == 1
MaxFreq == 1
MaxPatch == 1

SerialChars == {65}
SerialStrings == UNION {[1..n -> SerialChars] : n \in 0..MaxSerialLen}
ParamTuples == {<<f, 8, 16, 0, 10, 5>> : f \in 0..MaxFreq}
VersionNumbers == {<<7, 0, p>> : p \in 0..MaxPatch}

\* the well-formed success responses to each command
GoodVersion == {VersionResp(v[1], v[2], v[3]) : v \in VersionNumbers}
GoodSerial == {SerialResp(STATUS_SUCCESS, s) : s \in SerialStrings}
GoodParams == {ParamsResp(STATUS_SUCCESS, p) : p \in ParamTuples}
GoodEnable == {EnableAck(STATUS_SUCCESS)}
GoodDisable == {DisableAck(STATUS_SUCCESS)}

GoodResponses(cmd) ==
    CASE cmd = Commands_GET_VERSION -> GoodVersion
      [] cmd = Commands_SERIAL_READ -> GoodSerial
      [] cmd = Commands_PARAMS_READ -> GoodParams
      [] cmd = Commands_CONFIG_START -> GoodEnable
      [] cmd = Commands_CONFIG_END -> GoodDisable

\* the responses to each command that report failure
FailedResponses(cmd) ==
    CASE cmd = Commands_GET_VERSION -> {}
      [] cmd = Commands_SERIAL_READ -> {SerialResp(STATUS_FAILURE, <<>>)}
      [] cmd = Commands_PARAMS_READ -> {Responses_PARAMS_READ \o STATUS_FAILURE}
      [] cmd = Commands_CONFIG_START -> {EnableAck(STATUS_FAILURE)}
      [] cmd = Commands_CONFIG_END -> {DisableAck(STATUS_FAILURE)}

\* the responses to each command that are too short or too long for their layout,
\* or carry a serial number that is not ASCII
BadResponses(cmd) ==
    CASE cmd = Commands_GET_VERSION -> {Slice(VersionResp(7, 0, 5), 0, 13)}
      [] cmd = Commands_SERIAL_READ ->
            {Responses_SERIAL_READ,
             Responses_SERIAL_READ \o STATUS_SUCCESS,
             Responses_SERIAL_READ \o STATUS_SUCCESS \o pack_H(2) \o <<65>>,
             SerialResp(STATUS_SUCCESS, <<200>>)}
      [] cmd = Commands_PARAMS_READ ->
            {Responses_PARAMS_READ,
             Slice(ParamsResp(STATUS_SUCCESS, <<1, 8, 16, 0, 10, 5>>), 0, 27),
             ParamsResp(STATUS_SUCCESS, <<1, 8, 16, 0, 10, 5>>) \o <<0>>}
      [] cmd = Commands_CONFIG_START -> {}
      [] cmd = Commands_CONFIG_END -> {Responses_CONFIG_END}

\* a response word that is none of the five
UnknownResponses == {<<170, 1, 0, 0>>}

AllCommands ==
    {Commands_GET_VERSION, Commands_SERIAL_READ, Commands_PARAMS_READ,
     Commands_CONFIG_START, Commands_CONFIG_END}

\* what the device may answer to cmd
ResponsesTo(cmd) == GoodResponses(cmd) \cup FailedResponses(cmd) \cup BadResponses(cmd)

\* payloads with no response word of parse(): a lone byte, and a command code
\* without the acknowledgement byte
OddResponses == {<<255>>, <<255, 0, 0, 0>>}

\* every response of the model
Menu == UnknownResponses \cup OddResponses \cup UNION {ResponsesTo(cmd) : cmd \in AllCommands}

\* what the device may send unasked: a frame parse() does not know, and
\* acknowledgements that answer no command of the moment
Unsolicited == UnknownResponses \cup GoodEnable \cup GoodDisable

-----------------------------------------------------------------------------
(* The poll step.  serial.read() hands over the bytes of the line in order, *)
(* none on a timeout, so a frame may reach the buffer over several calls.   *)

SetSess(s) ==
    /\ config_started' = s.config_started
    /\ version' = s.version
    /\ serial_number' = s.serial_number
    /\ _freq_status' = s._freq_status
    /\ _freq_distance' = s._freq_distance
    /\ _distance_max' = s._distance_max
    /\ _distance_min' = s._distance_min
    /\ _unattended_delay' = s._unattended_delay
    /\ _response_speed' = s._response_speed

\* Python's `if data:` on unframe's result: neither None nor b''
truthy_data(d) == d # None /\ d[1] # <<>>

\* an update that clears waiting_for_frame whether or not a frame came
after_frame_cleared(got, waiting) == FALSE

\* waiting_for_frame after the `if data:` block that did not raise
after_frame(got, waiting) == IF got THEN FALSE ELSE waiting

\* whether update goes on to serial.write()
will_write(waiting, s) == ~waiting /\ ~done_reading(s)

\* update(), serial.read() returning the next n bytes of the line
update(n) ==
    LET u == unframe(buf \o Slice(wire, 0, n))
        got == truthy_data(u.data)
        p == IF got THEN parse(u.data[1], Sess) ELSE Return(Sess)
        w1 == after_frame(got, waiting_for_frame)
        write == will_write(w1, p.s)
    IN /\ wire' = From(wire, n)
       /\ buf' = u.buf
       /\ data' = u.data
       /\ SetSess(p.s)
       /\ UNCHANGED <<input, calls>>
       /\ IF p.exc # "none"
          THEN \* the exception leaves update before line 110
               /\ ret' = p.exc
               /\ wrote' = FALSE
               /\ UNCHANGED <<waiting_for_frame, tx, last_cmd>>
          ELSE /\ wrote' = write
               /\ waiting_for_frame' = (write \/ w1)
               /\ tx' = IF write THEN get_next_cmd(p.s) ELSE tx
               /\ last_cmd' = IF write THEN get_next_cmd(p.s) ELSE last_cmd
               /\ ret' = IF write \/ w1 THEN "True" ELSE "False"

MaxBacklog == 14

\* the device puts frame f on the line; it does so only when at most MaxBacklog
\* earlier bytes (one short frame) are still on the line or in the buffer
Send(f) ==
    /\ Len(buf) + Len(wire) <= MaxBacklog
    /\ wire' = wire \o f

\* the device takes the command written to it and answers with some response
DeviceAnswer ==
    /\ tx # None
    /\ tx' = None
    /\ \E d \in ResponsesTo(tx[1]) : Send(InFrame(d))
    /\ UNCHANGED <<buf, waiting_for_frame, sess_vars, last_cmd, data, wrote, ret, input, calls>>

\* the device takes the command written to it and does not answer
DeviceIgnore ==
    /\ tx # None
    /\ tx' = None
    /\ UNCHANGED <<buf, waiting_for_frame, sess_vars, wire, last_cmd, data, wrote, ret, input, calls>>

\* the device sends a frame nobody asked for
DeviceUnsolicited ==
    /\ \E d \in Unsolicited : Send(InFrame(d))
    /\ UNCHANGED <<buf, waiting_for_frame, sess_vars, tx, last_cmd, data, wrote, ret, input, calls>>

\* a frame whose length field declares one byte more than the payload d it carries
Mislabelled(d) == FRAME_HEAD \o pack_H(Len(d) + 1) \o d \o FRAME_END

\* payloads that arrive in such frames: none at all, an enable ack cut short, and
\* a disable ack cut down to its response word
MislabelledBodies == {<<>>, Responses_CONFIG_START \o STATUS_SUCCESS, Responses_CONFIG_END}

\* the device sends a frame whose length field is wrong, onto a line with no
\* earlier bytes left to process
DeviceMislabel ==
    /\ buf = <<>>
    /\ wire = <<>>
    /\ \E d \in MislabelledBodies : Send(Mislabelled(d))
    /\ UNCHANGED <<buf, waiting_for_frame, sess_vars, tx, last_cmd, data, wrote, ret, input, calls>>

MaxRead == 8

\* one update() call: serial.read() times out with nothing, or returns what has
\* arrived, at most MaxRead bytes
Poll == \E n \in {0, Min(MaxRead, Len(wire))} : update(n)

Init ==
    /\ buf = <<>>
    /\ waiting_for_frame = FALSE
    /\ config_started = InitSess.config_started
    /\ version = InitSess.version
    /\ serial_number = InitSess.serial_number
    /\ _freq_status = InitSess._freq_status
    /\ _freq_distance = InitSess._freq_distance
    /\ _distance_max = InitSess._distance_max
    /\ _distance_min = InitSess._distance_min
    /\ _unattended_delay = InitSess._unattended_delay
    /\ _response_speed = InitSess._response_speed
    /\ wire = <<>>
    /\ tx = None
    /\ last_cmd = None
    /\ data = None
    /\ wrote = FALSE
    /\ ret = "init"
    /\ input = <<>>
    /\ calls = 0

Next == Poll \/ DeviceAnswer \/ DeviceIgnore \/ DeviceUnsolicited \/ DeviceMislabel

Spec == Init /\ [][Next]_vars

-----------------------------------------------------------------------------
(* main's loop against a device that answers every command with a well-formed *)
(* success response, over a line that delivers every byte                     *)

\* `while sensor.update(): pass`: update is called again only after it returned True
LoopPoll(n) ==
    /\ ret \in {"init", "True"}
    /\ update(n)

DeviceAnswerGood ==
    /\ tx # None
    /\ tx' = None
    /\ \E d \in GoodResponses(tx[1]) : Send(InFrame(d))
    /\ UNCHANGED <<buf, waiting_for_frame, sess_vars, last_cmd, data, wrote, ret, input, calls>>

LoopTimeout == LoopPoll(0)
LoopRead == LoopPoll(Min(MaxRead, Len(wire)))

NextLive == LoopTimeout \/ LoopRead \/ DeviceAnswerGood

SpecLive ==
    /\ Init
    /\ [][NextLive]_vars
    /\ WF_vars(LoopRead)
    /\ WF_vars(DeviceAnswerGood)

-----------------------------------------------------------------------------
(* parse() called directly, with any response of the model *)

ParseCall ==
    \E d \in Menu :
        LET p == parse(d, Sess)
        IN /\ SetSess(p.s)
           /\ data' = Some(d)
           /\ ret' = IF p.exc = "none" THEN "None" ELSE p.exc
           /\ UNCHANGED <<buf, waiting_for_frame, wire, tx, last_cmd, wrote, input, calls>>

SpecParse == Init /\ [][ParseCall]_vars

-----------------------------------------------------------------------------
(* unframe() called directly on a buffer *)

MaxPieces == 2
MaxCalls == 2

CmdCodes == {0, 4, 17}
Pieces == {<<0>>, <<4>>, FRAME_END, FRAME_HEAD}

RECURSIVE Cat(_)
\* the concatenations of at most n pieces
Cat(n) ==
    IF n = 0 THEN {<<>>}
    ELSE Cat(n - 1) \cup {a \o b : a \in Cat(n - 1), b \in Pieces}

Payloads == Cat(MaxPieces)

\* payloads of inbound frames: one parse() does not know, and one that holds the
\* bytes of the end marker
FrameBodies == UnknownResponses \cup {<<170, 1>> \o FRAME_END}

\* bytes with no end marker in them
Garbage == {g \in Payloads : Index(g, FRAME_END) = NotFound}

\* an end marker, garbage, then a frame
ResyncBuffers == {FRAME_END \o g \o InFrame(d) : g \in Garbage, d \in FrameBodies}

\* two frames, one behind the other
QueuedBuffers == {InFrame(d1) \o InFrame(d2) : d1 \in FrameBodies, d2 \in FrameBodies}

\* what the buffer may hold: an outbound frame, pieces around an inbound one,
\* a frame behind garbage, or two frames
Buffers ==
    {frame(<<c>>, p) : c \in CmdCodes, p \in Payloads}
        \cup {a \o b \o c : a \in Pieces \cup {<<>>},
                            b \in {InFrame(d) : d \in UnknownResponses} \cup {<<>>},
                            c \in Payloads}
        \cup ResyncBuffers \cup QueuedBuffers

InitFrame ==
    /\ buf \in Buffers
    /\ input = buf
    /\ calls = 0
    /\ waiting_for_frame = FALSE
    /\ config_started = InitSess.config_started
    /\ version = InitSess.version
    /\ serial_number = InitSess.serial_number
    /\ _freq_status = InitSess._freq_status
    /\ _freq_distance = InitSess._freq_distance
    /\ _distance_max = InitSess._distance_max
    /\ _distance_min = InitSess._distance_min
    /\ _unattended_delay = InitSess._unattended_delay
    /\ _response_speed = InitSess._response_speed
    /\ wire = <<>>
    /\ tx = None
    /\ last_cmd = None
    /\ data = None
    /\ wrote = FALSE
    /\ ret = "init"

UnframeCall ==
    /\ calls < MaxCalls
    /\ LET u == unframe(buf)
       IN /\ buf' = u.buf
          /\ data' = u.data
    /\ calls' = calls + 1
    /\ UNCHANGED <<waiting_for_frame, sess_vars, wire, tx, last_cmd, wrote, ret, input>>

SpecFrame == InitFrame /\ [][UnframeCall]_vars

-----------------------------------------------------------------------------
(* The claims *)

\* the response word that answers command cmd: its code, then the 0x01 marker
ResponseOf(cmd) == <<cmd[7], 1>>

Known(x) == x # None

AllParamsKnown ==
    /\ Known(_freq_status) /\ Known(_freq_distance) /\ Known(_distance_max)
    /\ Known(_distance_min) /\ Known(_unattended_delay) /\ Known(_response_speed)

NoParamKnown ==
    /\ ~Known(_freq_status) /\ ~Known(_freq_distance) /\ ~Known(_distance_max)
    /\ ~Known(_distance_min) /\ ~Known(_unattended_delay) /\ ~Known(_response_speed)

\* C1, as claimed, one parse() call at a time: from a fresh session a version
\* response makes the next command CONFIG_START; then an enable ack makes it
\* SERIAL_READ; then a successful serial response makes it PARAMS_READ; then a
\* successful parameters response makes it CONFIG_END; then a successful disable
\* ack makes it None.
C1_Step ==
    LET d == data'[1]
        next == get_next_cmd(Sess')
    IN /\ (Sess = InitSess /\ d \in GoodVersion)
            => next = Some(Commands_CONFIG_START)
       /\ (/\ Known(version) /\ ~Known(serial_number) /\ NoParamKnown /\ ~config_started
           /\ Slice(d, 0, 2) = Responses_CONFIG_START)
            => next = Some(Commands_SERIAL_READ)
       /\ (/\ Known(version) /\ ~Known(serial_number) /\ NoParamKnown /\ config_started
           /\ d \in GoodSerial)
            => next = Some(Commands_PARAMS_READ)
       /\ (/\ Known(version) /\ Known(serial_number) /\ NoParamKnown /\ config_started
           /\ d \in GoodParams)
            => next = Some(Commands_CONFIG_END)
       /\ (/\ Known(version) /\ Known(serial_number) /\ AllParamsKnown /\ config_started
           /\ d \in GoodDisable)
            => next = None

\* C1: on a fresh session the next command is GET_VERSION, and every parse() call
\* of the sequence version, enable ack, serial, parameters, disable ack moves the
\* next command on as C1_Step says.
C1_CommandOrdering ==
    /\ (Sess = InitSess => get_next_cmd(Sess) = Some(Commands_GET_VERSION))
    /\ [][C1_Step]_vars

NeedsConfig == {Some(Commands_SERIAL_READ), Some(Commands_PARAMS_READ)}

\* C2: get_next_cmd() is SERIAL_READ or PARAMS_READ only while config_started is
\* true, and when update() has written one of the two, config_started is true.
C2_ConfigGating ==
    /\ get_next_cmd(Sess) \in NeedsConfig => config_started
    /\ (wrote /\ last_cmd \in NeedsConfig) => config_started

\* C2's case: update() has written PARAMS_READ
C2_Witness == wrote /\ last_cmd = Some(Commands_PARAMS_READ) /\ config_started

\* C3, as claimed: an update() call that writes a command while the command written
\* before is still awaited has just applied the response to that command.
C3_Serialized ==
    [][(Poll /\ waiting_for_frame /\ wrote')
         => (data' # None /\ Slice(data'[1], 0, 2) = ResponseOf(last_cmd[1]))]_vars

\* C4: when update() returned False, get_next_cmd() is None, no reply is awaited,
\* every fact is known and config_started is false; when it returned True, a
\* command has been written and its reply is awaited.
C4_PollResult ==
    /\ ret = "False" =>
          /\ get_next_cmd(Sess) = None
          /\ ~waiting_for_frame
          /\ Known(version) /\ Known(serial_number) /\ AllParamsKnown
          /\ ~config_started
    /\ ret = "True" => (waiting_for_frame /\ Known(last_cmd))

\* C4's case: update() returned False after a whole exchange
C4_Witness == ret = "False" /\ Known(serial_number) /\ last_cmd = Some(Commands_CONFIG_END)

\* C5, as claimed: no parse() call changes a fact that is already set.
C5_NeverOverwritten ==
    [][/\ Known(version) => version' = version
       /\ Known(serial_number) => serial_number' = serial_number
       /\ Known(_freq_status) => _freq_status' = _freq_status
       /\ Known(_freq_distance) => _freq_distance' = _freq_distance
       /\ Known(_distance_max) => _distance_max' = _distance_max
       /\ Known(_distance_min) => _distance_min' = _distance_min
       /\ Known(_unattended_delay) => _unattended_delay' = _unattended_delay
       /\ Known(_response_speed) => _response_speed' = _response_speed]_vars

\* C6, as claimed: once a fact is set, whatever its value, get_next_cmd() is not
\* the command that asks for it.
C6_NeverReRequested ==
    /\ Known(version) => get_next_cmd(Sess) # Some(Commands_GET_VERSION)
    /\ Known(serial_number) => get_next_cmd(Sess) # Some(Commands_SERIAL_READ)
    /\ AllParamsKnown => get_next_cmd(Sess) # Some(Commands_PARAMS_READ)

\* C7, as claimed: against a device that answers every command with a well-formed
\* success response, some update() call returns False.
C7_LoopEnds == <>(ret = "False")

\* C8, as claimed: config_started becomes true only by an enable ack whose status
\* is success, and a disable ack whose status is success makes it false.
C8_ConfigOnlyAfterSuccess ==
    [][/\ (~config_started /\ config_started')
            => (/\ Slice(data'[1], 0, 2) = Responses_CONFIG_START
                /\ Slice(data'[1], 2, 4) = STATUS_SUCCESS)
       /\ (data'[1] \in GoodDisable) => ~config_started']_vars

\* C9, as claimed: a parameters response with success status raises nothing and
\* sets all six facts when it has at least 28 bytes, and raises the
\* malformed-response fault and sets none when it has fewer.
C9_ParamsDecode ==
    [][LET d == data'[1]
       IN (Slice(d, 0, 2) = Responses_PARAMS_READ /\ Slice(d, 2, 4) = STATUS_SUCCESS)
            => IF Len(d) >= 28
               THEN /\ ret' = "None"
                    /\ _freq_status' = Some(unpack_I(Slice(d, 4, 8)))
                    /\ _freq_distance' = Some(unpack_I(Slice(d, 8, 12)))
                    /\ _distance_max' = Some(unpack_I(Slice(d, 12, 16)))
                    /\ _distance_min' = Some(unpack_I(Slice(d, 16, 20)))
                    /\ _unattended_delay' = Some(unpack_I(Slice(d, 20, 24)))
                    /\ _response_speed' = Some(unpack_I(Slice(d, 24, 28)))
               ELSE /\ ret' = "Exception"
                    /\ UNCHANGED sess_vars]_vars

\* C10, as claimed: one unframe() call on a buffer holding frame(c, p) returns
\* c, 0x00, p and leaves the buffer empty, whatever p holds.
C10_RoundTrip ==
    \A c \in CmdCodes, p \in Payloads :
        (input = frame(<<c>>, p) /\ calls = 1)
            => (data = Some(<<c, 0>> \o p) /\ buf = <<>>)

\* C11: an unframe() call on a buffer that holds no end marker returns None and
\* leaves the buffer as it was.
C11_PartialData ==
    [][(UnframeCall /\ Index(buf, FRAME_END) = NotFound)
         => (data' = None /\ buf' = buf)]_vars

\* C11's case: unframe() has been called on the start of a frame, head marker and
\* no end marker yet
C11_Witness ==
    /\ calls >= 1
    /\ Index(input, FRAME_HEAD) # NotFound
    /\ Index(input, FRAME_END) = NotFound
    /\ buf = input
    /\ data = None

\* C12, as claimed: on an end marker, garbage with no end marker in it, then a
\* frame (here one whose payload holds no marker), the first unframe() call
\* returns None and leaves garbage and frame, and the second call returns the
\* frame's payload.
C12_Resync ==
    \A g \in Garbage, d \in UnknownResponses :
        input = FRAME_END \o g \o InFrame(d)
            => /\ calls = 1 => (data = None /\ buf = g \o InFrame(d))
               /\ calls = 2 => data = Some(d)

\* C17, as claimed: an unframe() call on a buffer that holds an end marker leaves
\* exactly the bytes after the first end marker, and of two queued frames (the
\* first with no marker in its payload) the second is whole in the buffer after
\* the first call and its payload is returned by the second.
C17_ConsumeToEnd ==
    /\ \A b \in Buffers :
           (input = b /\ calls = 1 /\ Index(b, FRAME_END) # NotFound)
               => buf = From(b, Index(b, FRAME_END) + 4)
    /\ \A d1 \in UnknownResponses, d2 \in FrameBodies :
           input = InFrame(d1) \o InFrame(d2)
               => /\ calls = 1 => buf = InFrame(d2)
                  /\ calls = 2 => data = Some(d2)

\* C14, as claimed: a DisableConfig ack with a failure status leaves
\* config_started true, and when all facts are known the next command of
\* get_next_cmd() is CONFIG_END again.
C14_DisableRetry ==
    [][(/\ ParseCall
        /\ config_started
        /\ data' \in {Some(f) : f \in FailedResponses(Commands_CONFIG_END)})
         => /\ config_started'
            /\ (Known(version') /\ Known(serial_number') /\ AllParamsKnown')
                   => get_next_cmd(Sess') = Some(Commands_CONFIG_END)]_vars

\* the response words parse() knows
KnownWords ==
    {Responses_CONFIG_START, Responses_CONFIG_END, Responses_GET_VERSION,
     Responses_PARAMS_READ, Responses_SERIAL_READ}

\* C15: parse() raises on a DisableConfig ack shorter than 4 bytes, a GetVersion
\* response shorter than 14 and a ReadSerial response shorter than 4, and whenever
\* parse() raises, config_started and every fact keep their values.
C15_RaiseKeepsFacts ==
    [][ParseCall
         => LET d == data'[1]
                word == Slice(d, 0, 2)
            IN /\ ret' # "None" => UNCHANGED sess_vars
               /\ (word = Responses_CONFIG_END /\ Len(d) < 4) => ret' = "Exception"
               /\ (word = Responses_GET_VERSION /\ Len(d) < 14) => ret' = "Exception"
               /\ (word = Responses_SERIAL_READ /\ Len(d) < 4) => ret' = "Exception"]_vars

\* C15's case: parse() has raised on a ReadSerial response that declares more
\* serial bytes than it holds, in a session that had a serial number
C15_Witness ==
    /\ data = Some(Responses_SERIAL_READ \o STATUS_SUCCESS \o pack_H(2) \o <<65>>)
    /\ ret = "struct.error"
    /\ serial_number = Some(<<65>>)

\* C16: on a payload whose response word is none of the five parse() knows,
\* parse() raises nothing and changes neither config_started nor any fact.
C16_UnknownIgnored ==
    [][(ParseCall /\ Slice(data'[1], 0, 2) \notin KnownWords)
         => (ret' = "None" /\ UNCHANGED sess_vars)]_vars

\* C16's case: parse() has returned from a payload that starts with a command code
\* and lacks the acknowledgement byte, in a session with facts to keep
C16_Witness ==
    /\ data = Some(<<255, 0, 0, 0>>)
    /\ ret = "None"
    /\ ~config_started
    /\ Known(version)

\* C19, as claimed: the six parameter fields are all unset or all set, and the
\* test get_next_cmd() makes of _freq_status tells whether a parameter is unknown.
C19_ParamsAllOrNone ==
    /\ AllParamsKnown \/ NoParamKnown
    /\ not_int(_freq_status) <=> ~AllParamsKnown

\* C13: when waiting_for_frame is true and unframe() gets no payload out of the
\* buffer with the bytes just read appended, update() writes nothing, leaves
\* config_started, every fact and waiting_for_frame as they were, and returns True.
C13_WaitingNoFrame ==
    [][(Poll /\ waiting_for_frame /\ ~truthy_data(data'))
         => /\ ~wrote'
            /\ tx' = tx
            /\ last_cmd' = last_cmd
            /\ UNCHANGED sess_vars
            /\ waiting_for_frame'
            /\ ret' = "True"]_vars

\* C13's case: update() has returned True without writing, no payload obtained and
\* the start of a frame kept in the buffer, while a command is outstanding
C13_Witness ==
    /\ waiting_for_frame
    /\ ~wrote
    /\ ret = "True"
    /\ data = None
    /\ buf # <<>>
    /\ Known(last_cmd)

\* the bytes between the first head marker and the first end marker of b
SpanData(b) == Slice(b, Index(b, FRAME_HEAD) + 4, Index(b, FRAME_END))

\* b holds a span with a length field, and the field is not the span's length less 2
MislabelledSpan(b) ==
    /\ Index(b, FRAME_END) # NotFound
    /\ Index(b, FRAME_HEAD) # NotFound
    /\ Len(SpanData(b)) >= 2
    /\ unpack_H(Slice(SpanData(b), 0, 2)) # Len(SpanData(b)) - 2

====
